---------------------------- MODULE Spec2Model ----------------------------
(***************************************************************************)
(* Model of the JLCPCB component query engine (src/JLCPCB_search.py and    *)
(* src/util.py): the Unit Parser, the Condition Evaluator, the single      *)
(* batch filter, the Result Ranker and the Dataset Controller.             *)
(*                                                                         *)
(* Text is modelled as a sequence of characters, each character a string.  *)
(* The non-ASCII characters are written by name: "Omega" is the capital    *)
(* omega, "omega" the small one, "micro" the micro sign, "deg" the degree  *)
(* sign, "e_acute" and "E_acute" the letter e with an acute accent.  A     *)
(* number is kept exactly, as a mantissa and a power of ten                *)
(* ([m |-> 47, e |-> 2] is 4700): binary floating point rounding is not    *)
(* modelled.                                                               *)
(***************************************************************************)
EXTENDS Integers, Sequences, FiniteSets, TLC

VARIABLES
    filename,         \* JLCPCB_Search.filename: the name of the backing file
    chunk_size,       \* JLCPCB_Search.chunk_size: NoChunkSize when never set
    source,           \* the records of the backing file, in file order
    file_exists,      \* the backing file is still where __init__ found it
    resident_df,      \* JLCPCB_Search._df: the table held in memory, or None
    shares_df,        \* search_components: final_df is the very object self._df
    earlier,          \* the caller: an earlier call and its result, or None
    query,            \* search_components: the parameters that were given
    position,         \* search_components: records the JSON iterator has read
    found_chunks,     \* search_components: the filtered chunks kept so far
    final_df,         \* search_components: the table handed to the ranking
    stage,            \* the last _perform_search_on_df call, stage by stage
    returned,         \* search_components: what the call returned or raised
    pc,               \* where the current run stands
    token,            \* Unit Parser run: the text handed to _parse_parametric_query
    parsed,           \* Unit Parser run: what _parse_parametric_query returned
    component_specs,  \* Condition Evaluator run: the Specifications value of a row
    condition,        \* Condition Evaluator run: the parsed condition
    verdict,          \* Condition Evaluator run: what the evaluator returned
    output_file,      \* downloader: the lines of OUTPUT_FILENAME
    progress_file,    \* downloader: the content of PROGRESS_FILENAME, or None
    temp_file,        \* downloader: the content of PROGRESS_FILENAME.tmp, or None
    runs,             \* downloader: how many times the program was started
    dl_pc,            \* downloader: where download_sequentially_rich stands
    progress_data,    \* download_sequentially_rich: progress_data
    completed_tasks_set,     \* download_sequentially_rich: completed_tasks_set
    processed_ids_set,       \* download_sequentially_rich: processed_ids_set
    valid_tasks,             \* download_sequentially_rich: valid_tasks
    task_i,                  \* download_sequentially_rich: the task the loop is at
    newly_added_components,  \* download_sequentially_rich: newly_added_components
    written           \* append_components_to_file: lines written by this call

search_vars ==
    <<filename, chunk_size, source, file_exists, resident_df, shares_df, earlier,
      query, position, found_chunks, final_df, stage, returned>>

probe_vars == <<token, parsed, component_specs, condition, verdict>>

dl_vars ==
    <<output_file, progress_file, temp_file, runs, dl_pc, progress_data,
      completed_tasks_set, processed_ids_set, valid_tasks, task_i,
      newly_added_components, written>>

vars == <<search_vars, pc, probe_vars, dl_vars>>

\* Python's None, as a result of _parse_parametric_query.
None == [none |-> TRUE]

(***************************************************************************)
(* Characters.                                                             *)
(***************************************************************************)
Digits == {"0", "1", "2", "3", "4", "5", "6", "7", "8", "9"}

DigitVal(c) ==
    CASE c = "0" -> 0 [] c = "1" -> 1 [] c = "2" -> 2 [] c = "3" -> 3
      [] c = "4" -> 4 [] c = "5" -> 5 [] c = "6" -> 6 [] c = "7" -> 7
      [] c = "8" -> 8 [] c = "9" -> 9

\* str.lower() on one character.
Lower(c) ==
    CASE c = "A" -> "a" [] c = "B" -> "b" [] c = "C" -> "c" [] c = "D" -> "d"
      [] c = "E" -> "e" [] c = "F" -> "f" [] c = "G" -> "g" [] c = "H" -> "h"
      [] c = "I" -> "i" [] c = "J" -> "j" [] c = "K" -> "k" [] c = "L" -> "l"
      [] c = "M" -> "m" [] c = "N" -> "n" [] c = "O" -> "o" [] c = "P" -> "p"
      [] c = "Q" -> "q" [] c = "R" -> "r" [] c = "S" -> "s" [] c = "T" -> "t"
      [] c = "U" -> "u" [] c = "V" -> "v" [] c = "W" -> "w" [] c = "X" -> "x"
      [] c = "Y" -> "y" [] c = "Z" -> "z"
      [] c = "Omega" -> "omega" [] c = "E_acute" -> "e_acute"
      [] OTHER -> c

LowerStr(s) == [i \in 1..Len(s) |-> Lower(s[i])]

IsSpace(c) == c = " "

(***************************************************************************)
(* The Unit Parser: _parse_parametric_query.                               *)
(***************************************************************************)

\* \s* : the first position at or after i that holds no white space.
RECURSIVE SkipSpaces(_, _)
SkipSpaces(s, i) ==
    IF i <= Len(s) /\ IsSpace(s[i]) THEN SkipSpaces(s, i + 1) ELSE i

\* \d* : the first position at or after i that holds no digit.
RECURSIVE SkipDigits(_, _)
SkipDigits(s, i) ==
    IF i <= Len(s) /\ s[i] \in Digits THEN SkipDigits(s, i + 1) ELSE i

\* (>=|<=|>|<)? at position i: the operator's text, <<>> when there is none.
MatchOperator(s, i) ==
    IF i + 1 <= Len(s) /\ s[i] \in {">", "<"} /\ s[i + 1] = "="
        THEN <<s[i], "=">>
    ELSE IF i <= Len(s) /\ s[i] \in {">", "<"} THEN <<s[i]>>
    ELSE <<>>

\* (\d*\.?\d+) at position i: the position after the number, i when there is
\* none.  The number is the longest run "digits", "digits.digits" or ".digits".
NumberEnd(s, i) ==
    LET j == SkipDigits(s, i)
        k == IF j <= Len(s) /\ s[j] = "." THEN SkipDigits(s, j + 1) ELSE j
    IN  IF j <= Len(s) /\ s[j] = "." /\ k > j + 1 THEN k ELSE j

\* (p|n|u|micro|m|k|K|M|G)? under re.IGNORECASE.
PrefixLetters == {"p", "n", "u", "micro", "m", "k", "g"}

\* (F|H|V|A|Hz|W|Omega|ohm|ohms|%|C|deg C|R) under re.IGNORECASE, lower-cased.
UnitTexts ==
    { <<"f">>, <<"h">>, <<"v">>, <<"a">>, <<"h", "z">>, <<"w">>, <<"omega">>,
      <<"o", "h", "m">>, <<"o", "h", "m", "s">>, <<"%">>, <<"c">>,
      <<"deg", "c">>, <<"r">> }

\* prefix_map, as powers of ten.
PrefixMap ==
    [x \in {"p", "n", "u", "micro", "m", "k", "K", "M", "G"} |->
        CASE x = "p" -> 0 - 12 [] x = "n" -> 0 - 9 [] x = "u" -> 0 - 6
          [] x = "micro" -> 0 - 6 [] x = "m" -> 0 - 3 [] x = "k" -> 3
          [] x = "K" -> 3 [] x = "M" -> 6 [] x = "G" -> 9]

\* value *= prefix_map.get(prefix.lower(), 1): the power of ten applied.
\* prefix is <<>> when the group did not take part in the match.
PrefixScale(prefix) ==
    IF prefix = <<>> THEN 0
    ELSE IF Lower(prefix[1]) \in DOMAIN PrefixMap THEN PrefixMap[Lower(prefix[1])]
    ELSE 0

\* op_map.get(operator, "==")
FinalOperator(op) ==
    IF op \in {<<">">>, <<"<">>, <<">", "=">>, <<"<", "=">>} THEN op
    ELSE <<"=", "=">>

\* unit_type = None
NoUnitType == "None"

\* The unit type of a lower-cased unit, None when it maps to no category.
UnitType(unit_lower) ==
    CASE unit_lower = <<"f">> -> "Capacitance"
      [] unit_lower = <<"h">> -> "Inductance"
      [] unit_lower = <<"v">> -> "Voltage"
      [] unit_lower = <<"a">> -> "Current"
      [] unit_lower = <<"h", "z">> -> "Frequency"
      [] unit_lower = <<"w">> -> "Power"
      [] unit_lower \in {<<"omega">>, <<"o", "h", "m">>,
                         <<"o", "h", "m", "s">>, <<"r">>} -> "Resistance"
      [] unit_lower = <<"%">> -> "Tolerance"
      [] unit_lower \in {<<"c">>, <<"deg", "c">>} -> "Temperature"
      [] OTHER -> NoUnitType

\* float(value_str): the digits as a mantissa, the digits after the point as
\* a negative power of ten.
RECURSIVE Mantissa(_)
Mantissa(ds) ==
    IF ds = <<>> THEN 0
    ELSE 10 * Mantissa(SubSeq(ds, 1, Len(ds) - 1)) + DigitVal(ds[Len(ds)])

FloatOf(value_str) ==
    LET dots == {i \in 1..Len(value_str) : value_str[i] = "."}
        ds   == SelectSeq(value_str, LAMBDA c : c # ".")
        frac == IF dots = {} THEN 0
                ELSE Len(value_str) - (CHOOSE i \in dots : TRUE)
    IN  [m |-> Mantissa(ds), e |-> 0 - frac]

Scale(v, k) == [m |-> v.m, e |-> v.e + k]

\* Trailing \s*$ : the text with its trailing white space removed.
RECURSIVE RStrip(_)
RStrip(s) ==
    IF s # <<>> /\ IsSpace(s[Len(s)]) THEN RStrip(SubSeq(s, 1, Len(s) - 1))
    ELSE s

ParseParametricQuery(text) ==
    LET i0   == SkipSpaces(text, 1)
        op   == MatchOperator(text, i0)
        i1   == SkipSpaces(text, i0 + Len(op))
        i2   == NumberEnd(text, i1)
        i3   == SkipSpaces(text, i2)
        pre  == IF i3 <= Len(text) /\ Lower(text[i3]) \in PrefixLetters
                    THEN <<text[i3]>> ELSE <<>>
        i4   == SkipSpaces(text, i3 + Len(pre))
        unit == RStrip(SubSeq(text, i4, Len(text)))
        unit_lower == LowerStr(unit)
        unit_type  == UnitType(unit_lower)
    IN  IF i2 = i1 \/ unit_lower \notin UnitTexts THEN None
        ELSE IF unit_type = NoUnitType THEN None
        ELSE [ operator  |-> FinalOperator(op),
               value_si  |-> Scale(FloatOf(SubSeq(text, i1, i2 - 1)), PrefixScale(pre)),
               unit_type |-> unit_type,
               prefix    |-> pre ]

(***************************************************************************)
(* Exact decimal arithmetic on values m * 10^e, digit by digit.            *)
(***************************************************************************)
\* A value is written on LIMBS groups of four decimal digits, the lowest
\* group first; the lowest digit is the digit of 10^(-LOW_PLACES).  Mantissas
\* have fewer than five digits, so a value spans at most two groups.
LIMBS == 8
LOW_PLACES == 18

RECURSIVE Pow10(_)
Pow10(n) == IF n = 0 THEN 1 ELSE 10 * Pow10(n - 1)

ToDigits(v) ==
    LET s == v.e + LOW_PLACES
        w == v.m * Pow10(s % 4)
    IN  [i \in 1..LIMBS |->
            IF i = (s \div 4) + 1 THEN w % Pow10(4)
            ELSE IF i = (s \div 4) + 2 THEN w \div Pow10(4)
            ELSE 0]

RECURSIVE PlusFrom(_, _, _, _)
PlusFrom(x, y, i, carry) ==
    IF i > Len(x) THEN <<>>
    ELSE <<(x[i] + y[i] + carry) % Pow10(4)>>
            \o PlusFrom(x, y, i + 1, (x[i] + y[i] + carry) \div Pow10(4))

PlusDigits(x, y) == PlusFrom(x, y, 1, 0)

\* x <= y, decided at the highest group where they differ.
RECURSIVE LeqFrom(_, _, _)
LeqFrom(x, y, i) ==
    IF i = 0 THEN TRUE
    ELSE IF x[i] # y[i] THEN x[i] < y[i]
    ELSE LeqFrom(x, y, i - 1)

LeqDigits(x, y) == LeqFrom(x, y, Len(x))

Leq(a, b) == LeqDigits(ToDigits(a), ToDigits(b))

\* numpy.isclose's default tolerances, as powers of ten: rtol = 1e-05 and
\* atol = 1e-08.
RTOL_DIGITS == 5
ATOL_DIGITS == 8

\* numpy.isclose(a, b): absolute(a - b) <= atol + rtol * absolute(b), for
\* the non-negative values the parser produces.
IsClose(a, b) ==
    LET da  == ToDigits(a)
        db  == ToDigits(b)
        tol == PlusDigits(ToDigits([m |-> 1, e |-> 0 - ATOL_DIGITS]),
                          ToDigits(Scale(b, 0 - RTOL_DIGITS)))
        within(x, y) == LeqDigits(x, PlusDigits(y, tol))
    IN  within(da, db) /\ within(db, da)

(***************************************************************************)
(* The Condition Evaluator: _evaluate_parametric_condition.                *)
(*                                                                         *)
(* A specification entry is a record holding the keys the entry has; an    *)
(* entry that is not a mapping is the record [scalar |-> TRUE].  The value *)
(* of a cell of the table is [v |-> value], or NaN for a row without the   *)
(* field.                                                                  *)
(***************************************************************************)
NaN == [nan |-> TRUE]

\* isinstance(component_specs, list): the Specifications a row has are lists.
IsList(cell) == "v" \in DOMAIN cell

IsDict(spec) == "scalar" \notin DOMAIN spec

\* spec.get('attribute_value_name', '')
AttrValue(spec) ==
    IF "attribute_value_name" \in DOMAIN spec THEN spec.attribute_value_name
    ELSE <<>>

\* The five comparisons of the loop body, for one parsed entry.
Compare(op, comp_val, value_to_compare) ==
    LET close   == IsClose(comp_val, value_to_compare)
        greater == ~Leq(comp_val, value_to_compare)
        less    == ~Leq(value_to_compare, comp_val)
    IN  \/ op = <<"=", "=">> /\ close
        \/ op = <<">">> /\ greater
        \/ op = <<"<">> /\ less
        \/ op = <<">", "=">> /\ (greater \/ close)
        \/ op = <<"<", "=">> /\ (less \/ close)

\* A faulty variant of the loop: an entry that is not a mapping ends the scan
\* ("return False" in place of "continue").
RECURSIVE EvaluateFrom_AbortOnMalformed(_, _, _)
EvaluateFrom_AbortOnMalformed(specs, cond, i) ==
    IF i > Len(specs) THEN FALSE
    ELSE IF ~IsDict(specs[i]) THEN FALSE
    ELSE LET component_param == ParseParametricQuery(AttrValue(specs[i]))
         IN  IF /\ component_param # None
                /\ component_param.unit_type = cond.unit_type
                /\ Compare(cond.operator, component_param.value_si, cond.value_si)
             THEN TRUE
             ELSE EvaluateFrom_AbortOnMalformed(specs, cond, i + 1)

\* The loop over component_specs from entry i on.
RECURSIVE EvaluateFrom(_, _, _)
EvaluateFrom(specs, cond, i) ==
    IF i > Len(specs) THEN FALSE
    ELSE IF ~IsDict(specs[i]) THEN EvaluateFrom(specs, cond, i + 1)
    ELSE LET component_param == ParseParametricQuery(AttrValue(specs[i]))
         IN  IF /\ component_param # None
                /\ component_param.unit_type = cond.unit_type
                /\ Compare(cond.operator, component_param.value_si, cond.value_si)
             THEN TRUE
             ELSE EvaluateFrom(specs, cond, i + 1)

EvaluateParametricCondition(cell, cond) ==
    IF ~IsList(cell) THEN FALSE
    ELSE EvaluateFrom(cell.v, cond, 1)

(***************************************************************************)
(* Tables.  A record of the data set is a function from the keys it has to *)
(* their values.  A table (a pandas DataFrame) over the backing file is    *)
(* [rows |-> the line numbers of its rows, in order, cols |-> its columns]:*)
(* a column exists when a record the table was built from has the key, and *)
(* selecting rows keeps the columns.                                       *)
(***************************************************************************)
EmptyRecord == [k \in {} |-> 0]

\* pd.DataFrame()
EmptyDataFrame == [rows |-> <<>>, cols |-> {}]

\* DataFrame.empty
IsEmpty(df) == df.rows = <<>> \/ df.cols = {}

\* The table of the records at the lines `lines` of the file.
DataFrameOf(lines) ==
    [rows |-> lines, cols |-> UNION {DOMAIN source[lines[i]] : i \in 1..Len(lines)}]

\* The cell of row r in column col: NaN when the record lacks the key.
Cell(r, col) == IF col \in DOMAIN source[r] THEN [v |-> source[r][col]] ELSE NaN

\* Series.fillna(value) on one cell.
FillNa(cell, value) == IF cell = NaN THEN value ELSE cell.v

(***************************************************************************)
(* The single batch filter: _perform_search_on_df.                         *)
(***************************************************************************)
DEFAULT_PREFERENCE == 99
SENTINEL_PRICE == 999999

\* str.split(): the white-space separated words of a text.
RECURSIVE SplitFrom(_, _)
SplitFrom(s, i) ==
    LET b == SkipSpaces(s, i)
        e == CHOOSE j \in b..(Len(s) + 1) :
                /\ \A k \in b..(j - 1) : ~IsSpace(s[k])
                /\ (j = Len(s) + 1 \/ IsSpace(s[j]))
    IN  IF b > Len(s) THEN <<>>
        ELSE <<SubSeq(s, b, e - 1)>> \o SplitFrom(s, e)

Split(s) == SplitFrom(s, 1)

\* str.split('|'): the parts between the bars, empty parts included.
RECURSIVE SplitBar(_)
SplitBar(s) ==
    IF \A i \in 1..Len(s) : s[i] # "|" THEN <<s>>
    ELSE LET b == CHOOSE i \in 1..Len(s) :
                    s[i] = "|" /\ \A j \in 1..(i - 1) : s[j] # "|"
         IN  <<SubSeq(s, 1, b - 1)>> \o SplitBar(SubSeq(s, b + 1, Len(s)))

\* sep.join(parts)
RECURSIVE Join(_, _)
Join(parts, sep) ==
    IF parts = <<>> THEN <<>>
    ELSE IF Len(parts) = 1 THEN parts[1]
    ELSE parts[1] \o sep \o Join(Tail(parts), sep)

\* clean_text_value (src/util.py) on a text: the accents are dropped (NFD,
\* then the combining marks removed), the text is lower-cased, the non-ASCII
\* characters are removed, runs of white space become one space and the
\* ends are stripped.
Unaccent(c) == CASE c = "e_acute" -> "e" [] c = "E_acute" -> "E" [] OTHER -> c

NonAscii == {"Omega", "omega", "micro", "deg", "e_acute", "E_acute"}

CleanTextValue(text) ==
    Join(Split(SelectSeq(LowerStr([i \in 1..Len(text) |-> Unaccent(text[i])]),
                         LAMBDA c : c \notin NonAscii)),
         <<" ">>)

\* A regular expression made of escaped alternatives is found in s when one
\* of the alternatives is a substring of s.
Contains(s, part) ==
    \E i \in 1..(Len(s) - Len(part) + 1) : SubSeq(s, i, i + Len(part) - 1) = part

ContainsAny(s, parts) == \E k \in 1..Len(parts) : Contains(s, parts[k])

\* The loop over query_text.split(): each token with what the Unit Parser
\* made of it.
ParsedTokens(q) ==
    IF "query_text" \notin DOMAIN q THEN <<>>
    ELSE LET toks == Split(q.query_text)
         IN  [i \in 1..Len(toks) |->
                [token |-> toks[i], param_query |-> ParseParametricQuery(toks[i])]]

\* param_conditions: the tokens the Unit Parser accepts, parsed, in order.
ParamConditions(q) ==
    LET good == SelectSeq(ParsedTokens(q), LAMBDA t : t.param_query # None)
    IN  [i \in 1..Len(good) |-> good[i].param_query]

\* A faulty variant of text_conditions: a rejected token that starts with a
\* digit is dropped.
TextConditions_DropNumeric(q) ==
    LET bad == SelectSeq(ParsedTokens(q), LAMBDA t :
                   t.param_query = None /\ t.token[1] \notin Digits)
    IN  [i \in 1..Len(bad) |-> bad[i].token]

\* text_conditions: the tokens the Unit Parser rejects, in order.
TextConditions(q) ==
    LET bad == SelectSeq(ParsedTokens(q), LAMBDA t : t.param_query = None)
    IN  [i \in 1..Len(bad) |-> bad[i].token]

\* A faulty variant of the stock filter: the rows in stock come back last
\* row first.
StockFilter_LastFirst(df, q) ==
    IF "min_stock" \in DOMAIN q /\ "Stock" \in df.cols
    THEN LET hits == SelectSeq(df.rows, LAMBDA r : FillNa(Cell(r, "Stock"), 0) >= q.min_stock)
         IN  [df EXCEPT !.rows = [i \in 1..Len(hits) |-> hits[Len(hits) + 1 - i]]]
    ELSE df

\* Stage 1: the stock and preference level filters.
StockFilter(df, q) ==
    IF "min_stock" \in DOMAIN q /\ "Stock" \in df.cols
    THEN [df EXCEPT !.rows =
            SelectSeq(df.rows, LAMBDA r : FillNa(Cell(r, "Stock"), 0) >= q.min_stock)]
    ELSE df

PreferenceFilter(df, q) ==
    IF "max_preference_level" \in DOMAIN q /\ "Preference Level" \in df.cols
    THEN [df EXCEPT !.rows =
            SelectSeq(df.rows, LAMBDA r :
                FillNa(Cell(r, "Preference Level"), DEFAULT_PREFERENCE)
                    <= q.max_preference_level)]
    ELSE df

\* Stage 2: the filter on the column col_name (Package or Manufacturer) by
\* the parameter param.  The alternatives of the filter are cleaned, the
\* column is only matched without regard to case.
ColumnFilter(df, q, param, col_name) ==
    IF /\ param \in DOMAIN q /\ q[param] # <<>>
       /\ col_name \in df.cols /\ ~IsEmpty(df)
    THEN [df EXCEPT !.rows =
            SelectSeq(df.rows, LAMBDA r :
                ContainsAny(LowerStr(FillNa(Cell(r, col_name), <<>>)),
                            [k \in 1..Len(SplitBar(q[param])) |->
                                CleanTextValue(SplitBar(q[param])[k])]))]
    ELSE df

\* A faulty variant of the mask: a row is kept when it satisfies one of the
\* conditions ("|=" in place of "&=").
RowMask_AnyCondition(r, conds, i) ==
    \E k \in i..Len(conds) :
        EvaluateParametricCondition(Cell(r, "Specifications"), conds[k])

\* rows_to_keep_mask after the conditions from i on: TRUE, then
\* mask &= evaluate(specs, condition) for each condition.
RECURSIVE RowMask(_, _, _)
RowMask(r, conds, i) ==
    IF i > Len(conds) THEN TRUE
    ELSE /\ EvaluateParametricCondition(Cell(r, "Specifications"), conds[i])
         /\ RowMask(r, conds, i + 1)

\* What a stage hands on: [raised, df, param_in, param_out].  param_in is the
\* table the parametric stage received and param_out what it kept.
StageResult(raised, received, kept) ==
    [raised |-> raised, df |-> kept, param_in |-> received, param_out |-> kept]

\* A value given for specifications: whether it is a dict, and the sequence
\* of its items [key, value] (of a dict) or of its elements (of a list, here
\* a list of pairs).  bool(value) is whether it has any.
DictValue(items) == [isdict |-> TRUE, value |-> items]

OtherValue(elements) == [isdict |-> FALSE, value |-> elements]

Truthy(v) == v.value # <<>>

\* A faulty variant of the structured filter: with a dict, the rows are kept
\* whose list has an entry with one of the values of the dict.
SpecificationsFilter_ByValue(df, q) ==
    IF /\ "specifications" \in DOMAIN q /\ Truthy(q.specifications)
       /\ "Specifications" \in df.cols
    THEN IF q.specifications.isdict
         THEN [df EXCEPT !.rows = SelectSeq(df.rows, LAMBDA r :
                 /\ Cell(r, "Specifications") # NaN
                 /\ \E e \in DOMAIN Cell(r, "Specifications").v :
                     \E k \in DOMAIN q.specifications.value :
                        Cell(r, "Specifications").v[e].attribute_value_name
                            = q.specifications.value[k].value)]
         ELSE df
    ELSE df

\* The structured filter: "if specifications and "Specifications" in
\* result_df.columns: if isinstance(specifications, dict): pass".
SpecificationsFilter(df, q) ==
    IF /\ "specifications" \in DOMAIN q /\ Truthy(q.specifications)
       /\ "Specifications" \in df.cols
    THEN IF q.specifications.isdict THEN df ELSE df
    ELSE df

\* "if result_df.empty: return result_df", then stage 4, the parametric
\* filter, when there are parametric conditions.  result_df["Specifications"] raises KeyError when
\* the table has no such column.
ParametricFilter(df, conds) ==
    IF IsEmpty(df) \/ conds = <<>> THEN StageResult(FALSE, df, df)
    ELSE IF "Specifications" \notin df.cols
        THEN StageResult(TRUE, df, EmptyDataFrame)
    ELSE StageResult(FALSE, df,
            [df EXCEPT !.rows = SelectSeq(df.rows, LAMBDA r : RowMask(r, conds, 1))])

\* _build_searchable_text_column, for row r: the text fields the table has,
\* joined by a space and cleaned.
TEXT_FIELDS ==
    <<"JLCPCB Part", "Model", "Category", "Package", "Description",
      "Manufacturer", "Short Description">>

SearchableText(df, r) ==
    CleanTextValue(Join([k \in 1..Len(SelectSeq(TEXT_FIELDS, LAMBDA f : f \in df.cols)) |->
                            FillNa(Cell(r, SelectSeq(TEXT_FIELDS, LAMBDA f : f \in df.cols)[k]),
                                   <<>>)],
                        <<" ">>))

\* Faulty variants of the masks: a row is kept when one of the literal tokens
\* is found, and the token is matched as written, without cleaning.
TextMask_AnyToken(searchable_text, text_conditions, i) ==
    \E k \in i..Len(text_conditions) :
        ContainsAny(searchable_text, SplitBar(CleanTextValue(text_conditions[k])))

TextMask_RawToken(searchable_text, text_conditions, i) ==
    \A k \in i..Len(text_conditions) :
        ContainsAny(searchable_text, SplitBar(text_conditions[k]))

\* The masks of the literal tokens from i on, on the searchable text of a row.
RECURSIVE TextMask(_, _, _)
TextMask(searchable_text, text_conditions, i) ==
    IF i > Len(text_conditions) THEN TRUE
    ELSE /\ ContainsAny(searchable_text, SplitBar(CleanTextValue(text_conditions[i])))
         /\ TextMask(searchable_text, text_conditions, i + 1)

\* Stage 5: the literal text filter, on what the parametric stage handed on.
TextFilter(st, text_conditions) ==
    IF st.raised \/ text_conditions = <<>> \/ IsEmpty(st.df) THEN st
    ELSE [raised |-> FALSE,
          df |-> [rows |-> SelectSeq(st.df.rows, LAMBDA r :
                              TextMask(SearchableText(st.df, r), text_conditions, 1)),
                  cols |-> st.df.cols],
          param_in |-> st.param_in, param_out |-> st.param_out]

\* What one call of _perform_search_on_df did: the table it received, the
\* table each stage handed on, the two lists made of query_text, and what
\* the last stages made of them (raised, df, param_in, param_out).
StageTrace(batch, stock_out, preference_out, package_out, param_conditions, text_conditions, st) ==
    [raised |-> st.raised, df |-> st.df,
     param_in |-> st.param_in, param_out |-> st.param_out,
     batch |-> batch, stock_out |-> stock_out,
     preference_out |-> preference_out, package_out |-> package_out,
     param_conditions |-> param_conditions, text_conditions |-> text_conditions]

\* "if df.empty: return pd.DataFrame()": no stage has run.
NoStage ==
    StageTrace(EmptyDataFrame, EmptyDataFrame, EmptyDataFrame, EmptyDataFrame,
               <<>>, <<>>, StageResult(FALSE, EmptyDataFrame, EmptyDataFrame))

\* Stages 3 to 5 on the table the manufacturer filter handed on.  The two
\* lists are made only when that table has rows.
FromManufacturer(batch, stock_out, preference_out, package_out, manufacturer_out, param_conditions, text_conditions) ==
    StageTrace(batch, stock_out, preference_out, package_out,
               IF IsEmpty(manufacturer_out) THEN <<>> ELSE param_conditions,
               IF IsEmpty(manufacturer_out) THEN <<>> ELSE text_conditions,
               TextFilter(ParametricFilter(manufacturer_out, param_conditions),
                          text_conditions))

\* The second turn of the loop of stage 2, then the loop over the tokens
\* and the structured filter.
FromPackage(batch, stock_out, preference_out, package_out, q) ==
    FromManufacturer(batch, stock_out, preference_out, package_out,
                     SpecificationsFilter(
                         ColumnFilter(package_out, q, "manufacturer", "Manufacturer"), q),
                     ParamConditions(q), TextConditions(q))

\* The first turn of the loop of stage 2.
FromPreference(batch, stock_out, preference_out, q) ==
    FromPackage(batch, stock_out, preference_out,
                ColumnFilter(preference_out, q, "package", "Package"), q)

\* The preference level filter of stage 1.
FromStock(batch, stock_out, q) ==
    FromPreference(batch, stock_out, PreferenceFilter(stock_out, q), q)

\* A faulty variant: without the copy, a call whose query narrows nothing
\* hands back the table it received.
ReturnsItsInput_NoCopy(df, q) == ~IsEmpty(df) /\ DOMAIN q = {}

\* The table _perform_search_on_df returns is the very object it received.
\* "result_df = df.copy()" and "return pd.DataFrame()" make it a new object
\* on every path.
ReturnsItsInput(df, q) == FALSE

\* _perform_search_on_df.  The specifications parameter changes nothing.
PerformSearchOnDf(df, q) ==
    IF IsEmpty(df) THEN NoStage
    ELSE FromStock(df, StockFilter(df, q), q)

(***************************************************************************)
(* The Result Ranker: the end of search_components, and get_min_price.     *)
(***************************************************************************)
\* A price tier is a record of the keys it has; {} is the empty record.
RECURSIVE MinPriceFrom(_, _, _)
MinPriceFrom(tiers, i, min_price) ==
    IF i > Len(tiers) THEN min_price
    ELSE LET tier == tiers[i]
             p == IF "productPrice" \in DOMAIN tier THEN tier.productPrice
                  ELSE SENTINEL_PRICE
         IN  IF tier # EmptyRecord /\ p < min_price
             THEN MinPriceFrom(tiers, i + 1, p)
             ELSE MinPriceFrom(tiers, i + 1, min_price)

\* Faulty variants of get_min_price: the price of the first tier (what
\* get_unit_price takes), and an empty list priced 0.
GetMinPrice_FirstTier(cell) ==
    IF cell = NaN \/ Len(cell.v) = 0 THEN SENTINEL_PRICE
    ELSE IF "productPrice" \in DOMAIN cell.v[1] THEN cell.v[1].productPrice
    ELSE SENTINEL_PRICE

GetMinPrice_EmptyIsFree(cell) ==
    IF cell = NaN THEN SENTINEL_PRICE
    ELSE IF Len(cell.v) = 0 THEN 0
    ELSE MinPriceFrom(cell.v, 1, SENTINEL_PRICE)

\* get_min_price on a cell of the Price Tiers column.
GetMinPrice(cell) ==
    IF cell = NaN \/ Len(cell.v) = 0 THEN SENTINEL_PRICE
    ELSE MinPriceFrom(cell.v, 1, SENTINEL_PRICE)

\* A faulty variant of is_stock_zero: the two arms of np.where exchanged.
IsStockZero_Swapped(df, r) ==
    IF "Stock" \in df.cols
    THEN (IF FillNa(Cell(r, "Stock"), 0) > 0 THEN 1 ELSE 0)
    ELSE 1

\* The three sort columns of a row of final_df.  The Preference Level column
\* is <<0, level>>, or <<1, 0>> for a NaN, which sort_values puts last.
IsStockZero(df, r) ==
    IF "Stock" \in df.cols
    THEN (IF FillNa(Cell(r, "Stock"), 0) > 0 THEN 0 ELSE 1)
    ELSE 1

PreferenceColumn(df, r) ==
    IF "Preference Level" \notin df.cols THEN <<0, DEFAULT_PREFERENCE>>
    ELSE IF Cell(r, "Preference Level") = NaN THEN <<1, 0>>
    ELSE <<0, Cell(r, "Preference Level").v>>

MinPriceColumn(df, r) ==
    IF "Price Tiers" \in df.cols THEN GetMinPrice(Cell(r, "Price Tiers"))
    ELSE SENTINEL_PRICE

SortKey(df, r) ==
    <<IsStockZero(df, r)>> \o PreferenceColumn(df, r) \o <<MinPriceColumn(df, r)>>

\* Lexicographic order on the sort keys.
RECURSIVE KeyLeqFrom(_, _, _)
KeyLeqFrom(a, b, i) ==
    IF i > Len(a) THEN TRUE
    ELSE IF a[i] # b[i] THEN a[i] < b[i]
    ELSE KeyLeqFrom(a, b, i + 1)

KeyLeq(a, b) == KeyLeqFrom(a, b, 1)

\* A faulty variant of the sort: a row goes before the rows whose key equals
\* its own (a sort that is not stable).
InsertRow_BeforeEqual(df, sorted, r) ==
    LET before == {i \in 1..Len(sorted) :
                      /\ KeyLeq(SortKey(df, sorted[i]), SortKey(df, r))
                      /\ SortKey(df, sorted[i]) # SortKey(df, r)}
        n == IF before = {} THEN 0 ELSE CHOOSE i \in before : \A j \in before : j <= i
    IN  SubSeq(sorted, 1, n) \o <<r>> \o SubSeq(sorted, n + 1, Len(sorted))

\* sort_values on several columns is a stable sort: a row goes after every
\* row whose key is less than or equal to its own.
InsertRow(df, sorted, r) ==
    LET before == {i \in 1..Len(sorted) : KeyLeq(SortKey(df, sorted[i]), SortKey(df, r))}
        n == IF before = {} THEN 0 ELSE CHOOSE i \in before : \A j \in before : j <= i
    IN  SubSeq(sorted, 1, n) \o <<r>> \o SubSeq(sorted, n + 1, Len(sorted))

RECURSIVE SortRows(_, _)
SortRows(df, n) ==
    IF n = 0 THEN <<>> ELSE InsertRow(df, SortRows(df, n - 1), df.rows[n])

\* The final ordering of search_components.
RankResults(df) ==
    IF IsEmpty(df) THEN df
    ELSE [rows |-> SortRows(df, Len(df.rows)),
          cols |-> df.cols \cup {"Preference Level"}]

(***************************************************************************)
(* The Dataset Controller: __init__ and search_components.                 *)
(***************************************************************************)
JsonlSuffix == <<".", "j", "s", "o", "n", "l">>

\* str.endswith
EndsWith(s, suffix) ==
    Len(s) >= Len(suffix) /\ SubSeq(s, Len(s) - Len(suffix) + 1, Len(s)) = suffix

\* chunk_size of an object built from a single JSON document: the class
\* attribute, None.
NoChunkSize == 0 - 1

\* The condition of the chunking path: chunk_size and filename and
\* filename.endswith('.jsonl').
TakesChunkingPath ==
    /\ chunk_size # NoChunkSize /\ chunk_size # 0
    /\ filename # <<>>
    /\ EndsWith(filename, JsonlSuffix)

\* self._df: None for an object built from a .jsonl file.
ResidentIsNone == EndsWith(filename, JsonlSuffix)

Lines(from, to) == [i \in 1..(to - from + 1) |-> from + i - 1]

AllLines == Lines(1, Len(source))

\* The lines of the chunk the JSON iterator yields after `read` records.
ChunkLines(read) ==
    Lines(read + 1, IF read + chunk_size < Len(source) THEN read + chunk_size
                    ELSE Len(source))

\* A faulty variant of the concatenation: the chunks found last come first.
RECURSIVE ConcatRows_Reversed(_)
ConcatRows_Reversed(chunks) ==
    IF chunks = <<>> THEN <<>>
    ELSE ConcatRows_Reversed(Tail(chunks)) \o chunks[1].rows

\* pd.concat(found_chunks, ignore_index=True)
RECURSIVE ConcatRows(_)
ConcatRows(chunks) ==
    IF chunks = <<>> THEN <<>> ELSE chunks[1].rows \o ConcatRows(Tail(chunks))

Concat(chunks) ==
    [rows |-> ConcatRows(chunks),
     cols |-> UNION {chunks[i].cols : i \in 1..Len(chunks)}]

NoResult == [raised |-> FALSE, df |-> EmptyDataFrame]

\* search_components is called with the parameters q.  On the chunking path
\* pd.read_json opens the file: when the file is gone it raises, and the
\* except clause returns an empty table.
Search(q) ==
    /\ pc = "idle"
    /\ query' = q
    /\ IF TakesChunkingPath /\ file_exists
       THEN /\ pc' = "iterate"
            /\ UNCHANGED returned
       ELSE IF TakesChunkingPath \/ ResidentIsNone \/ Len(source) = 0
       THEN /\ pc' = "returned"
            /\ returned' = [raised |-> FALSE, df |-> EmptyDataFrame]
       ELSE /\ pc' = "filter"
            /\ UNCHANGED returned
    /\ UNCHANGED <<filename, chunk_size, source, file_exists, resident_df, shares_df,
                   position, found_chunks, final_df, stage, earlier, probe_vars, dl_vars>>

\* A line of the file that is not a JSON document.
Undecodable == [undecodable |-> TRUE]

\* The JSON iterator raises ValueError on a chunk with such a line.
DecodeFails(lines) == \E i \in 1..Len(lines) : source[lines[i]] = Undecodable

\* One turn of the loop over json_iterator: the next chunk is read and
\* filtered.  An exception, of the read or of the filter, ends the call
\* with an empty table.
ReadChunk ==
    /\ pc = "iterate"
    /\ position < Len(source)
    /\ stage' = IF DecodeFails(ChunkLines(position)) THEN NoStage
                 ELSE PerformSearchOnDf(DataFrameOf(ChunkLines(position)), query)
    /\ IF DecodeFails(ChunkLines(position)) \/ stage'.raised
       THEN /\ pc' = "returned"
            /\ returned' = [raised |-> FALSE, df |-> EmptyDataFrame]
            /\ UNCHANGED <<position, found_chunks>>
       ELSE /\ position' = position + Len(ChunkLines(position))
            /\ found_chunks' = IF IsEmpty(stage'.df) THEN found_chunks
                               ELSE Append(found_chunks, stage'.df)
            /\ UNCHANGED <<pc, returned>>
    /\ UNCHANGED <<filename, chunk_size, source, file_exists, resident_df, shares_df,
                   query, final_df, earlier, probe_vars, dl_vars>>

\* The iterator is exhausted: the chunks found are concatenated.
ConcatChunks ==
    /\ pc = "iterate"
    /\ position >= Len(source)
    /\ final_df' = IF found_chunks # <<>> THEN Concat(found_chunks) ELSE final_df
    /\ pc' = "rank"
    /\ UNCHANGED <<filename, chunk_size, source, file_exists, resident_df, shares_df,
                   query, position, found_chunks, stage, returned, earlier, probe_vars, dl_vars>>

\* The in-memory path: one filter over the whole table.  An exception
\* leaves search_components.
FilterResident ==
    /\ pc = "filter"
    /\ stage' = PerformSearchOnDf(resident_df, query)
    /\ IF stage'.raised
       THEN /\ pc' = "returned"
            /\ returned' = [raised |-> TRUE, df |-> EmptyDataFrame]
            /\ UNCHANGED <<final_df, shares_df>>
       ELSE /\ pc' = "rank"
            /\ final_df' = stage'.df
            /\ shares_df' = ReturnsItsInput(resident_df, query)
            /\ UNCHANGED returned
    /\ UNCHANGED <<filename, chunk_size, source, file_exists, resident_df, query,
                   position, found_chunks, earlier, probe_vars, dl_vars>>

\* The columns the final ordering assigns to final_df before it sorts.
RANKER_COLUMNS == {"is_stock_zero", "Preference Level", "min_price"}

\* The final ordering, common to both paths, and the return.  The three
\* column assignments write into the object final_df names.
Rank ==
    /\ pc = "rank"
    /\ returned' = [raised |-> FALSE, df |-> RankResults(final_df)]
    /\ resident_df' = IF shares_df /\ ~IsEmpty(final_df)
                       THEN [resident_df EXCEPT !.cols = @ \cup RANKER_COLUMNS]
                       ELSE resident_df
    /\ pc' = "returned"
    /\ UNCHANGED <<filename, chunk_size, source, file_exists, shares_df, query,
                   position, found_chunks, final_df, stage, earlier, probe_vars, dl_vars>>

\* A faulty variant of the return: the chunks found and the lines read
\* outlive the call (kept on the object instead of in locals).
Return_KeepsChunks ==
    /\ pc = "returned"
    /\ pc' = "idle"
    /\ query' = EmptyRecord
    /\ stage' = NoStage
    /\ returned' = NoResult
    /\ shares_df' = FALSE
    /\ UNCHANGED <<filename, chunk_size, source, file_exists, resident_df, position,
                   found_chunks, final_df, earlier, probe_vars, dl_vars>>

\* The caller has the result; the locals of the call are gone.
Return ==
    /\ pc = "returned"
    /\ pc' = "idle"
    /\ query' = EmptyRecord
    /\ position' = 0
    /\ found_chunks' = <<>>
    /\ final_df' = EmptyDataFrame
    /\ stage' = NoStage
    /\ returned' = NoResult
    /\ shares_df' = FALSE
    /\ UNCHANGED <<filename, chunk_size, source, file_exists, resident_df, earlier, probe_vars, dl_vars>>

\* The same, with a caller that keeps the parameters and the result of the
\* call, to compare them with a later call.
ReturnKept ==
    /\ pc = "returned"
    /\ earlier = None
    /\ earlier' = [query |-> query, returned |-> returned]
    /\ pc' = "idle"
    /\ query' = EmptyRecord
    /\ position' = 0
    /\ found_chunks' = <<>>
    /\ final_df' = EmptyDataFrame
    /\ stage' = NoStage
    /\ returned' = NoResult
    /\ shares_df' = FALSE
    /\ UNCHANGED <<filename, chunk_size, source, file_exists, resident_df, probe_vars, dl_vars>>

\* The backing file is removed between two calls.
RemoveFile ==
    /\ pc = "idle"
    /\ file_exists
    /\ file_exists' = FALSE
    /\ UNCHANGED <<filename, chunk_size, source, resident_df, shares_df, query,
                   position, found_chunks, final_df, stage, returned, pc, earlier, probe_vars, dl_vars>>

\* What a call with the parameters q returns on the in-memory path over
\* the records of the file.
ResidentOutcome(q) ==
    IF Len(source) = 0 THEN [raised |-> FALSE, df |-> EmptyDataFrame]
    ELSE LET res == PerformSearchOnDf(DataFrameOf(AllLines), q)
         IN  IF res.raised THEN [raised |-> TRUE, df |-> EmptyDataFrame]
             ELSE [raised |-> FALSE, df |-> RankResults(res.df)]

(***************************************************************************)
(* The data sets and the queries the model runs.                           *)
(***************************************************************************)
MaxRecords == 2
MaxChunk == 2
MaxSpecs == 2
MaxPage == 2
MaxRuns == 2

BaseRecord == [k \in {"JLCPCB Part"} |-> <<"C", "1">>]

Field(name, value) == [k \in {name} |-> value]

Entry(value) == [attribute_name_en |-> <<"x">>, attribute_value_name |-> value]

Tier(price) == [startNumber |-> 1, productPrice |-> price]

Tok10k  == <<"1", "0", "k", "Omega">>
Tok1k   == <<"1", "k", "Omega">>
Tok100k == <<"1", "0", "0", "k", "Omega">>
Tok5k   == <<"5", "k", "Omega">>
Tok12k  == <<"1", "2", "k", "Omega">>
Tok5pF  == <<"5", "p", "F">>
Tok10pF == <<"1", "0", "p", "F">>

StockOptions == {EmptyRecord} \cup {Field("Stock", n) : n \in {0, 1}}

PreferenceOptions == {EmptyRecord} \cup {Field("Preference Level", n) : n \in {0, 2}}

PriceTierOptions ==
    {Field("Price Tiers", l) : l \in {<<>>, <<Tier(2)>>, <<Tier(2), Tier(1)>>}}

SpecificationsOptions ==
    {EmptyRecord} \cup
    {Field("Specifications", l) :
        l \in {<<>>, <<Entry(Tok10k)>>, <<Entry(Tok1k), Entry(Tok100k)>>}}

\* The records of the data sets the filters are run on.
FilterRecords ==
    {BaseRecord @@ s @@ x : s \in StockOptions, x \in SpecificationsOptions}

\* The records of the data sets the ranking is run on.
RankRecords ==
    {BaseRecord @@ s @@ l @@ t :
        s \in StockOptions, l \in PreferenceOptions, t \in PriceTierOptions}

RECURSIVE SeqsUpTo(_, _)
SeqsUpTo(S, n) ==
    IF n = 0 THEN {<<>>}
    ELSE LET shorter == SeqsUpTo(S, n - 1)
         IN  shorter \cup {Append(l, x) : l \in {t \in shorter : Len(t) = n - 1}, x \in S}

JsonName  == <<"d", "b", ".", "j", "s", "o", "n">>
JsonlName == <<"d", "b", ".", "j", "s", "o", "n", "l">>

QGe10k == <<">", "=">> \o Tok10k
QLt5k  == <<"<">> \o Tok5k

FilterQueries ==
    { EmptyRecord,
      Field("min_stock", 1),
      Field("query_text", QGe10k),
      Field("query_text", QLt5k \o <<" ">> \o QGe10k),
      Field("query_text", QGe10k \o <<" ">> \o <<"c", "1">>),
      Field("min_stock", 1) @@ Field("query_text", QGe10k) }

RankQueries == {EmptyRecord, Field("max_preference_level", 2)}

\* The records of the data sets the text filters are run on: the package
\* written with an accent and a capital or plainly, a manufacturer, and
\* descriptions in several spellings.
TxtEb      == <<"e", "b">>
TxtEbUpper == <<"E", "B">>
TxtEbAcute == <<"E_acute", "b">>
TxtAb      == <<"A", "b">>
Txt10k     == <<"1", "0", "k">>

TextRecords ==
    { BaseRecord,
      BaseRecord @@ Field("Package", TxtEbAcute),
      BaseRecord @@ Field("Package", TxtEb),
      BaseRecord @@ Field("Manufacturer", TxtAb),
      BaseRecord @@ Field("Package", TxtEb) @@ Field("Manufacturer", TxtAb),
      BaseRecord @@ Field("Description", Txt10k \o <<" ", " ">> \o TxtEbAcute)
                 @@ Field("Specifications", <<Entry(Tok10k)>>),
      BaseRecord @@ Field("Description", Txt10k \o <<" ">> \o TxtEb),
      BaseRecord @@ Field("Description", TxtEbUpper) }

TextQueries ==
    { EmptyRecord,
      Field("package", TxtEb),
      Field("package", <<"e_acute", "b">>),
      Field("package", <<"x", "|">>),
      Field("package", <<"Omega">>),
      Field("manufacturer", <<"a", "b">>),
      Field("query_text", Txt10k),
      Field("query_text", TxtEb),
      Field("query_text", TxtEbUpper),
      Field("query_text", <<"e_acute", "b">>),
      Field("query_text", <<"x", "|">> \o TxtEb \o <<" ">> \o Txt10k),
      Field("query_text", Txt10k \o <<" ">> \o QGe10k) }

(***************************************************************************)
(* The downloader: download_sequentially_rich and its two files.           *)
(***************************************************************************)
\* A search task is its parameters; the base tasks of two keywords.
Tasks == {[keyword |-> k, stockFlag |-> TRUE] : k \in {"resistor", "capacitor"}}

\* The components the API returns: two parts, and one without a part id.
PartIds == {<<"C", "1">>, <<"C", "2">>}

Components == {Field("JLCPCB Part", id) : id \in PartIds} \cup {Field("Model", <<"x">>)}

\* comp.get("JLCPCB Part") is truthy.
HasId(comp) == "JLCPCB Part" \in DOMAIN comp /\ comp["JLCPCB Part"] # <<>>

\* The content of the progress file: complete JSON text of a progress_data,
\* or the beginning of it.
FileContent(data, complete) ==
    [complete |-> complete, completed_tasks |-> data.completed_tasks,
     processed_ids |-> data.processed_ids]

NoProgress == [completed_tasks |-> <<>>, processed_ids |-> {}]

\* load_progress: the file's content, or the empty progress when there is
\* no file or json.load fails on it.
LoadProgress(file) ==
    IF file = None \/ ~file.complete THEN NoProgress
    ELSE [completed_tasks |-> file.completed_tasks, processed_ids |-> file.processed_ids]

\* set(tuple(sorted(t.items())) for t in progress_data["completed_tasks"])
TaskSet(completed_tasks) == {completed_tasks[k] : k \in 1..Len(completed_tasks)}

\* validate_task
ValidateTask(task_params, completed) == task_params \notin completed

\* The lists valid_tasks can be after the verification loop: tasks that
\* validate_task accepts, each once, in the order of the counts the API gave.
ValidTaskLists(completed) ==
    {l \in SeqsUpTo(Tasks, Cardinality(Tasks)) :
        /\ \A j, k \in 1..Len(l) : j # k => l[j] # l[k]
        /\ \A k \in 1..Len(l) : ValidateTask(l[k], completed)}

\* The loop over components_list from k on: the components with a part id
\* that is not in seen, each id once.
RECURSIVE NewlyAdded(_, _, _)
NewlyAdded(list, k, seen) ==
    IF k > Len(list) THEN <<>>
    ELSE IF HasId(list[k]) /\ list[k]["JLCPCB Part"] \notin seen
        THEN <<list[k]>> \o NewlyAdded(list, k + 1, seen \cup {list[k]["JLCPCB Part"]})
        ELSE NewlyAdded(list, k + 1, seen)

IdsOf(list) == {list[k]["JLCPCB Part"] : k \in 1..Len(list)}

\* No run of the downloader is going on, and there are no files yet.
DownloaderIdle ==
    /\ output_file = <<>>
    /\ progress_file = None
    /\ temp_file = None
    /\ runs = 0
    /\ dl_pc = "stopped"
    /\ progress_data = NoProgress
    /\ completed_tasks_set = {}
    /\ processed_ids_set = {}
    /\ valid_tasks = <<>>
    /\ task_i = 0
    /\ newly_added_components = <<>>
    /\ written = 0

\* The program is started: the progress is loaded and the tasks are made.
\* With no task to run it returns at once.
StartRun ==
    /\ dl_pc = "stopped"
    /\ runs < MaxRuns
    /\ runs' = runs + 1
    /\ progress_data' = LoadProgress(progress_file)
    /\ completed_tasks_set' = TaskSet(progress_data'.completed_tasks)
    /\ processed_ids_set' = progress_data'.processed_ids
    /\ valid_tasks' \in ValidTaskLists(completed_tasks_set')
    /\ task_i' = 1
    /\ dl_pc' = IF valid_tasks' = <<>> THEN "stopped" ELSE "download"
    /\ newly_added_components' = <<>>
    /\ written' = 0
    /\ UNCHANGED <<output_file, progress_file, temp_file>>
    /\ UNCHANGED <<search_vars, pc, probe_vars>>

\* "progress.update(overall_task, advance=1)": the loop goes to the next
\* task, or the run ends after the last.
AfterTask == IF task_i = Len(valid_tasks) THEN "stopped" ELSE "download"

\* get_jlcpcb_components returns a table, and the loop over its records
\* picks the new components.
Download ==
    /\ dl_pc = "download"
    /\ \E components_list \in SeqsUpTo(Components, MaxPage) :
          /\ newly_added_components' = NewlyAdded(components_list, 1, processed_ids_set)
          /\ processed_ids_set' = processed_ids_set \cup IdsOf(newly_added_components')
    /\ written' = 0
    /\ dl_pc' = IF newly_added_components' = <<>> THEN "save" ELSE "append"
    /\ UNCHANGED <<output_file, progress_file, temp_file, runs, progress_data,
                   completed_tasks_set, valid_tasks, task_i>>
    /\ UNCHANGED <<search_vars, pc, probe_vars>>

\* get_jlcpcb_components returns None: the task is logged as failed.
DownloadFails ==
    /\ dl_pc = "download"
    /\ dl_pc' = AfterTask
    /\ task_i' = task_i + 1
    /\ UNCHANGED <<output_file, progress_file, temp_file, runs, progress_data,
                   completed_tasks_set, processed_ids_set, valid_tasks,
                   newly_added_components, written>>
    /\ UNCHANGED <<search_vars, pc, probe_vars>>

\* append_components_to_file: one more line is written to the output file.
AppendComponent ==
    /\ dl_pc = "append"
    /\ output_file' = Append(output_file, newly_added_components[written + 1])
    /\ written' = written + 1
    /\ dl_pc' = IF written' = Len(newly_added_components) THEN "save" ELSE "append"
    /\ UNCHANGED <<progress_file, temp_file, runs, progress_data, completed_tasks_set,
                   processed_ids_set, valid_tasks, task_i, newly_added_components>>
    /\ UNCHANGED <<search_vars, pc, probe_vars>>

\* append_components_to_file: open or write raises IOError; the error is
\* printed and the function returns.
AppendFails ==
    /\ dl_pc = "append"
    /\ dl_pc' = "save"
    /\ UNCHANGED <<output_file, progress_file, temp_file, runs, progress_data,
                   completed_tasks_set, processed_ids_set, valid_tasks, task_i,
                   newly_added_components, written>>
    /\ UNCHANGED <<search_vars, pc, probe_vars>>

\* The task and the ids are put into progress_data, and save_progress opens
\* the temporary file for writing.
OpenTemp ==
    /\ dl_pc = "save"
    /\ progress_data' =
          [completed_tasks |-> Append(progress_data.completed_tasks, valid_tasks[task_i]),
           processed_ids |-> processed_ids_set]
    /\ temp_file' = FileContent(progress_data', FALSE)
    /\ dl_pc' = "dump"
    /\ UNCHANGED <<output_file, progress_file, runs, completed_tasks_set,
                   processed_ids_set, valid_tasks, task_i, newly_added_components, written>>
    /\ UNCHANGED <<search_vars, pc, probe_vars>>

\* save_progress: json.dump has written all of progress_data.
DumpProgress ==
    /\ dl_pc = "dump"
    /\ temp_file' = FileContent(progress_data, TRUE)
    /\ dl_pc' = "replace"
    /\ UNCHANGED <<output_file, progress_file, runs, progress_data, completed_tasks_set,
                   processed_ids_set, valid_tasks, task_i, newly_added_components, written>>
    /\ UNCHANGED <<search_vars, pc, probe_vars>>

\* save_progress: os.replace(temp_filename, PROGRESS_FILENAME).
ReplaceProgress ==
    /\ dl_pc = "replace"
    /\ progress_file' = temp_file
    /\ temp_file' = None
    /\ dl_pc' = AfterTask
    /\ task_i' = task_i + 1
    /\ UNCHANGED <<output_file, runs, progress_data, completed_tasks_set,
                   processed_ids_set, valid_tasks, newly_added_components, written>>
    /\ UNCHANGED <<search_vars, pc, probe_vars>>

\* save_progress: writing the temporary file raises IOError; the error is
\* printed and the progress file stays as it was.
SaveFails ==
    /\ dl_pc = "dump"
    /\ dl_pc' = AfterTask
    /\ task_i' = task_i + 1
    /\ UNCHANGED <<output_file, progress_file, temp_file, runs, progress_data,
                   completed_tasks_set, processed_ids_set, valid_tasks,
                   newly_added_components, written>>
    /\ UNCHANGED <<search_vars, pc, probe_vars>>

\* KeyboardInterrupt: the run ends where it stands; the files stay as they
\* are.
Interrupt ==
    /\ dl_pc # "stopped"
    /\ dl_pc' = "stopped"
    /\ progress_data' = NoProgress
    /\ completed_tasks_set' = {}
    /\ processed_ids_set' = {}
    /\ valid_tasks' = <<>>
    /\ task_i' = 0
    /\ newly_added_components' = <<>>
    /\ written' = 0
    /\ UNCHANGED <<output_file, progress_file, temp_file, runs>>
    /\ UNCHANGED <<search_vars, pc, probe_vars>>

\* The object after __init__, over a file of the records `records`.
Constructed(records) ==
    /\ \/ filename = JsonName /\ chunk_size = NoChunkSize
       \/ filename = JsonlName /\ chunk_size \in 0..MaxChunk
    /\ source \in records
    /\ file_exists = TRUE
    /\ resident_df = (IF ResidentIsNone THEN None ELSE DataFrameOf(AllLines))
    /\ shares_df = FALSE
    /\ earlier = None
    /\ query = EmptyRecord
    /\ position = 0
    /\ found_chunks = <<>>
    /\ final_df = EmptyDataFrame
    /\ stage = NoStage
    /\ returned = NoResult
    /\ pc = "idle"

ProbesIdle ==
    /\ token = [text |-> <<>>, op |-> <<>>, num |-> <<>>, prefix |-> <<>>, unit |-> <<>>]
    /\ parsed = None
    /\ component_specs = NaN
    /\ condition = None
    /\ verdict = FALSE

Init == Constructed(SeqsUpTo(FilterRecords, MaxRecords)) /\ ProbesIdle /\ DownloaderIdle

Next ==
    \/ \E q \in FilterQueries : Search(q)
    \/ ReadChunk
    \/ ConcatChunks
    \/ FilterResident
    \/ Rank
    \/ Return

Spec == Init /\ [][Next]_vars

\* The same object over the data sets of the ranking.
InitRank == Constructed(SeqsUpTo(RankRecords, MaxRecords)) /\ ProbesIdle /\ DownloaderIdle

NextRank ==
    \/ \E q \in RankQueries : Search(q)
    \/ ReadChunk
    \/ ConcatChunks
    \/ FilterResident
    \/ Rank
    \/ Return

SpecRank == InitRank /\ [][NextRank]_vars

\* The same object over the data sets of the text filters.
InitText == Constructed(SeqsUpTo(TextRecords, MaxRecords)) /\ ProbesIdle /\ DownloaderIdle

NextText ==
    \/ \E q \in TextQueries : Search(q)
    \/ ReadChunk
    \/ ConcatChunks
    \/ FilterResident
    \/ Rank
    \/ Return

SpecText == InitText /\ [][NextText]_vars

\* Calls that follow one another on the same object, with a caller that
\* keeps the result of one of them.
RepeatRecords == {BaseRecord @@ Field("Stock", n) : n \in {0, 1}}

RepeatQueries == {EmptyRecord, Field("min_stock", 1)}

InitRepeat == Constructed(SeqsUpTo(RepeatRecords, MaxRecords)) /\ ProbesIdle /\ DownloaderIdle

NextRepeat ==
    \/ \E q \in RepeatQueries : Search(q)
    \/ ReadChunk
    \/ ConcatChunks
    \/ FilterResident
    \/ Rank
    \/ Return
    \/ ReturnKept

SpecRepeat == InitRepeat /\ [][NextRepeat]_vars

\* Calls with and without a value for specifications, on records with and
\* without a list of specifications, with a caller that keeps the result of
\* one of them.
StructuredRecords ==
    { BaseRecord @@ Field("Stock", 0) @@ Field("Specifications", <<Entry(Tok10k)>>),
      BaseRecord @@ Field("Stock", 1) @@ Field("Specifications", <<Entry(Tok10k)>>),
      BaseRecord @@ Field("Stock", 1) }

StructuredQueries ==
    { EmptyRecord,
      Field("specifications", DictValue(<<[key |-> <<"x">>, value |-> Tok5k]>>)),
      Field("specifications", DictValue(<<>>)),
      Field("specifications", OtherValue(<<[key |-> <<"x">>, value |-> Tok5k]>>)),
      Field("min_stock", 1),
      Field("min_stock", 1) @@ Field("specifications", DictValue(<<[key |-> <<"x">>, value |-> Tok5k]>>)) }

InitStructured == Constructed(SeqsUpTo(StructuredRecords, MaxRecords)) /\ ProbesIdle /\ DownloaderIdle

NextStructured ==
    \/ \E q \in StructuredQueries : Search(q)
    \/ ReadChunk
    \/ ConcatChunks
    \/ FilterResident
    \/ Rank
    \/ Return
    \/ ReturnKept

SpecStructured == InitStructured /\ [][NextStructured]_vars

\* Calls of which one has a constraint more than another, on records with
\* and without stock and with and without a list of specifications, with a
\* caller that keeps the result of one of them.
NarrowRecords ==
    { BaseRecord @@ Field("Stock", 1) @@ Field("Specifications", <<Entry(Tok10k)>>),
      BaseRecord @@ Field("Stock", 1),
      BaseRecord @@ Field("Stock", 0) }

NarrowQueries ==
    { EmptyRecord,
      Field("min_stock", 1),
      Field("query_text", QGe10k),
      Field("query_text", QGe10k \o <<" ">> \o <<"c", "1">>),
      Field("min_stock", 1) @@ Field("query_text", QGe10k) }

InitNarrow == Constructed(SeqsUpTo(NarrowRecords, MaxRecords)) /\ ProbesIdle /\ DownloaderIdle

NextNarrow ==
    \/ \E q \in NarrowQueries : Search(q)
    \/ ReadChunk
    \/ ConcatChunks
    \/ FilterResident
    \/ Rank
    \/ Return
    \/ ReturnKept

SpecNarrow == InitNarrow /\ [][NextNarrow]_vars

\* A .jsonl file that may hold undecodable lines and may be removed after
\* the object is built.
FaultRecords ==
    {BaseRecord @@ Field("Stock", n) : n \in {0, 1}} \cup {Undecodable}

FaultQueries == {EmptyRecord, Field("min_stock", 1)}

InitFault ==
    /\ Constructed(SeqsUpTo(FaultRecords, MaxRecords))
    /\ filename = JsonlName
    /\ ProbesIdle
    /\ DownloaderIdle

NextFault ==
    \/ \E q \in FaultQueries : Search(q)
    \/ RemoveFile
    \/ ReadChunk
    \/ ConcatChunks
    \/ Rank
    \/ Return

SpecFault == InitFault /\ [][NextFault]_vars

(***************************************************************************)
(* Inputs of the Unit Parser run and of the Condition Evaluator run.       *)
(***************************************************************************)
OperatorTexts == {<<>>, <<">">>, <<"<">>, <<">", "=">>, <<"<", "=">>}

NumberTexts == {<<"1">>, <<"1", "0">>, <<"4", ".", "7">>, <<".", "5">>, <<"1", ".">>}

PrefixTexts ==
    {<<>>, <<"p">>, <<"n">>, <<"u">>, <<"micro">>, <<"m">>, <<"k">>, <<"K">>,
     <<"M">>, <<"G">>}

UnitSuffixes ==
    {<<>>, <<"F">>, <<"H">>, <<"V">>, <<"A">>, <<"H", "z">>, <<"W">>,
     <<"Omega">>, <<"o", "h", "m">>, <<"o", "h", "m", "s">>, <<"%">>,
     <<"C">>, <<"deg", "C">>, <<"R">>, <<"f">>, <<"x">>}

\* A token with the pieces it was written from.
TokenOf(o, n, p, u) ==
    [text |-> o \o n \o p \o u, op |-> o, num |-> n, prefix |-> p, unit |-> u]

ParserTokens ==
    {TokenOf(o, n, p, u) : o \in OperatorTexts, n \in NumberTexts,
                           p \in PrefixTexts, u \in UnitSuffixes}

SearchIdle ==
    /\ filename = JsonName
    /\ chunk_size = NoChunkSize
    /\ source = <<>>
    /\ file_exists = TRUE
    /\ resident_df = EmptyDataFrame
    /\ shares_df = FALSE
    /\ earlier = None
    /\ query = EmptyRecord
    /\ position = 0
    /\ found_chunks = <<>>
    /\ final_df = EmptyDataFrame
    /\ stage = NoStage
    /\ returned = NoResult

InitParse ==
    /\ SearchIdle
    /\ DownloaderIdle
    /\ pc = "parse"
    /\ token \in ParserTokens
    /\ parsed = None
    /\ component_specs = NaN
    /\ condition = None
    /\ verdict = FALSE

\* _parse_parametric_query is called on the token.
Parse ==
    /\ pc = "parse"
    /\ parsed' = ParseParametricQuery(token.text)
    /\ pc' = "parsed"
    /\ UNCHANGED <<search_vars, token, component_specs, condition, verdict, dl_vars>>

NextParse == Parse

SpecParse == InitParse /\ [][NextParse]_vars

\* The specification entries of a row: well formed ones, one that is not a
\* mapping, one without the value key and one without the name key.
EvalEntries ==
    {Entry(v) : v \in {Tok5k, Tok10k, Tok12k, Tok5pF, Tok10pF}}
        \cup {[scalar |-> TRUE], [attribute_name_en |-> <<"x">>],
              [attribute_value_name |-> Tok10k]}

\* The Specifications cells: NaN, and the lists of at most MaxSpecs entries.
EvalCells == {NaN} \cup {[v |-> l] : l \in SeqsUpTo(EvalEntries, MaxSpecs)}

\* The conditions the Unit Parser makes of the query tokens.
EvalConditions ==
    {ParseParametricQuery(o \o v) : o \in OperatorTexts, v \in {Tok10k, Tok10pF}}

InitEval ==
    /\ SearchIdle
    /\ DownloaderIdle
    /\ pc = "evaluate"
    /\ token = [text |-> <<>>, op |-> <<>>, num |-> <<>>, prefix |-> <<>>, unit |-> <<>>]
    /\ parsed = None
    /\ component_specs \in EvalCells
    /\ condition \in EvalConditions
    /\ verdict = FALSE

\* _evaluate_parametric_condition is called on the cell and the condition.
Evaluate ==
    /\ pc = "evaluate"
    /\ verdict' = EvaluateParametricCondition(component_specs, condition)
    /\ pc' = "evaluated"
    /\ UNCHANGED <<search_vars, token, parsed, component_specs, condition, dl_vars>>

NextEval == Evaluate

SpecEval == InitEval /\ [][NextEval]_vars

\* Runs of the downloader, one after another, each one ending by itself or
\* by an interrupt, over the same two files.
InitDownload == SearchIdle /\ pc = "idle" /\ ProbesIdle /\ DownloaderIdle

NextDownload ==
    \/ StartRun
    \/ Download
    \/ DownloadFails
    \/ AppendComponent
    \/ AppendFails
    \/ OpenTemp
    \/ DumpProgress
    \/ ReplaceProgress
    \/ SaveFails
    \/ Interrupt

SpecDownload == InitDownload /\ [][NextDownload]_vars

(***************************************************************************)
(* The properties of the query engine.                                     *)
(***************************************************************************)
\* The records of a table, in order.
RecordsOf(df) == [i \in 1..Len(df.rows) |-> source[df.rows[i]]]

\* A streaming call has returned.
StreamingReturned == pc = "returned" /\ TakesChunkingPath

\* C1: for every data set, query and batch size of at least one, a streaming
\* call returns the same sequence of records as the in-memory call over the
\* same records, wherever the batch boundaries fall, records without the
\* optional fields included.
StreamingReturnsResidentRecords ==
    StreamingReturned =>
        RecordsOf(returned.df) = RecordsOf(ResidentOutcome(query).df)

\* C2: for a data set that fits in one batch, the streaming call and the
\* in-memory call end the same way, with the same records in the same order,
\* for every query.
SingleBatchMatchesResident ==
    (StreamingReturned /\ Len(source) <= chunk_size) =>
        /\ returned.raised = ResidentOutcome(query).raised
        /\ RecordsOf(returned.df) = RecordsOf(ResidentOutcome(query).df)

\* The standard power of ten of an SI prefix, 0 without a prefix.
StandardExponent(prefix) ==
    CASE prefix = <<>> -> 0
      [] prefix = <<"p">> -> 0 - 12
      [] prefix = <<"n">> -> 0 - 9
      [] prefix \in {<<"u">>, <<"micro">>} -> 0 - 6
      [] prefix = <<"m">> -> 0 - 3
      [] prefix \in {<<"k">>, <<"K">>} -> 3
      [] prefix = <<"M">> -> 6
      [] prefix = <<"G">> -> 9

\* C3: for every token the Unit Parser accepts, value_si is the number of the
\* token times the standard power of ten of its prefix, and times 1 without
\* a prefix; m and M are distinct and G is 10^9.
PrefixScalesByStandardFactor ==
    (pc = "parsed" /\ parsed # None) =>
        parsed.value_si = Scale(FloatOf(token.num), StandardExponent(parsed.prefix))

\* The ranking key of a record as the specification words it: stock, with a
\* missing stock as 0; preference level, with a missing level as 99; the
\* lowest unit price of the price tiers, the sentinel without one.
StockOf(rec) == IF "Stock" \in DOMAIN rec THEN rec["Stock"] ELSE 0

LevelOf(rec) ==
    IF "Preference Level" \in DOMAIN rec THEN rec["Preference Level"]
    ELSE DEFAULT_PREFERENCE

PricesOf(rec) ==
    IF "Price Tiers" \notin DOMAIN rec THEN {}
    ELSE {rec["Price Tiers"][i].productPrice : i \in
            {k \in 1..Len(rec["Price Tiers"]) :
                "productPrice" \in DOMAIN rec["Price Tiers"][k]}}

LowestPrice(rec) ==
    IF PricesOf(rec) = {} THEN SENTINEL_PRICE
    ELSE CHOOSE p \in PricesOf(rec) : \A o \in PricesOf(rec) : p <= o

OutOfStock(rec) == IF StockOf(rec) > 0 THEN 0 ELSE 1

RankKeyOf(rec) == <<OutOfStock(rec), LevelOf(rec), LowestPrice(rec)>>

LexLeq(a, b) ==
    \/ a[1] < b[1]
    \/ a[1] = b[1] /\ a[2] < b[2]
    \/ a[1] = b[1] /\ a[2] = b[2] /\ a[3] <= b[3]

\* The records search_components returned, in order.
Output == RecordsOf(returned.df)

\* C4: in the output every record with stock 0 or no stock comes after every
\* record with stock above 0, whatever their preference levels and prices.
InStockFirst ==
    pc = "returned" =>
        \A i, j \in 1..Len(Output) :
            (StockOf(Output[i]) > 0 /\ StockOf(Output[j]) = 0) => i < j

\* C4 happens: a record out of stock that came first in the file, with the
\* better preference level and the lower price, is returned after a record
\* in stock.
InStockFirstHappens ==
    /\ pc = "returned"
    /\ returned.df.rows = <<2, 1>>
    /\ StockOf(source[1]) = 0 /\ StockOf(source[2]) > 0
    /\ LevelOf(source[1]) < LevelOf(source[2])
    /\ LowestPrice(source[1]) < LowestPrice(source[2])

\* C5: the output is sorted ascending by (is_stock_zero, preference level,
\* min_price): the key of each record is at most the key of the next, a
\* missing preference level counting as 99 and min_price being the lowest
\* unit price of the price tiers.
OutputSortedByKey ==
    pc = "returned" =>
        \A i \in 1..(Len(Output) - 1) :
            LexLeq(RankKeyOf(Output[i]), RankKeyOf(Output[i + 1]))

\* C5 happens: two records equally in stock are returned in the other order
\* than the file's, the one without a preference level after the one of
\* level 2, and the one of a record priced by its second tier.
OutputSortedHappens ==
    /\ pc = "returned"
    /\ returned.df.rows = <<2, 1>>
    /\ OutOfStock(source[1]) = OutOfStock(source[2])
    /\ "Preference Level" \notin DOMAIN source[1]
    /\ LevelOf(source[2]) = 2
    /\ Len(source[2]["Price Tiers"]) = 2

\* C6: two returned records with the same key keep the order they have in
\* the input: the order of the data set, and of the file across batches.
RankingIsStable ==
    pc = "returned" =>
        \A i, j \in 1..Len(Output) :
            (i < j /\ RankKeyOf(Output[i]) = RankKeyOf(Output[j]))
                => returned.df.rows[i] < returned.df.rows[j]

\* C6 happens: two different records with the same key, read in two batches,
\* are returned in file order.
RankingIsStableHappens ==
    /\ StreamingReturned
    /\ chunk_size = 1
    /\ returned.df.rows = <<1, 2>>
    /\ source[1] # source[2]
    /\ RankKeyOf(source[1]) = RankKeyOf(source[2])

\* The record has a price tier list and the list is empty.
NoPriceTiers(rec) == "Price Tiers" \in DOMAIN rec /\ rec["Price Tiers"] = <<>>

\* C7: a record with an empty price tier list gets the sentinel price and
\* comes strictly after every record with a valid price tier that has the
\* same is_stock_zero and the same preference level.
EmptyPriceTiersRankLast ==
    pc = "returned" =>
        \A i, j \in 1..Len(Output) :
            (/\ NoPriceTiers(Output[i])
             /\ PricesOf(Output[j]) # {}
             /\ OutOfStock(Output[i]) = OutOfStock(Output[j])
             /\ LevelOf(Output[i]) = LevelOf(Output[j]))
                => /\ j < i
                   /\ MinPriceColumn(returned.df, returned.df.rows[i]) = SENTINEL_PRICE

\* C7 happens: a record with an empty price tier list that came first in
\* the file is returned after a priced record of the same stock and level.
EmptyPriceTiersHappens ==
    /\ pc = "returned"
    /\ returned.df.rows = <<2, 1>>
    /\ NoPriceTiers(source[1])
    /\ PricesOf(source[2]) # {}
    /\ OutOfStock(source[1]) = OutOfStock(source[2])
    /\ LevelOf(source[1]) = LevelOf(source[2])

\* The operator op between the SI value x of an entry and the bound v.
ExactSatisfies(op, x, v) ==
    CASE op = <<">", "=">> -> Leq(v, x)
      [] op = <<"<", "=">> -> Leq(x, v)
      [] op = <<">">> -> ~Leq(x, v)
      [] op = <<"<">> -> ~Leq(v, x)
      [] op = <<"=", "=">> -> Leq(x, v) /\ Leq(v, x)

\* The entry is a mapping whose value parses to the unit category of cond.
SameCategory(spec, cond) ==
    /\ IsDict(spec)
    /\ ParseParametricQuery(AttrValue(spec)) # None
    /\ ParseParametricQuery(AttrValue(spec)).unit_type = cond.unit_type

\* C8: on an entry of the unit category of the condition, >= (resp. <=) is
\* satisfied when the SI value of the entry is equal to the bound or greater
\* (resp. less) and not when it is less (resp. greater), and > and < are not
\* satisfied by a value equal to the bound.
OperatorBoundaries ==
    (/\ pc = "evaluated"
     /\ condition.operator # <<"=", "=">>
     /\ IsList(component_specs)
     /\ Len(component_specs.v) = 1
     /\ SameCategory(component_specs.v[1], condition))
        => verdict = ExactSatisfies(condition.operator,
                        ParseParametricQuery(AttrValue(component_specs.v[1])).value_si,
                        condition.value_si)

\* C9: the evaluator returns true iff an entry of the list parses to the
\* unit category of the condition and its SI value satisfies the operator
\* against the value of the condition; false for an empty list, for a value
\* that is no list and when no entry has the category.
EvaluateIsAnyEntry ==
    pc = "evaluated" =>
        (verdict <=>
            /\ IsList(component_specs)
            /\ \E k \in 1..Len(component_specs.v) :
                /\ SameCategory(component_specs.v[k], condition)
                /\ ExactSatisfies(condition.operator,
                        ParseParametricQuery(AttrValue(component_specs.v[k])).value_si,
                        condition.value_si))

\* The row satisfies every parametric condition of the query, each on its
\* own.
SatisfiesAll(r, q) ==
    \A k \in 1..Len(ParamConditions(q)) :
        EvaluateParametricCondition(Cell(r, "Specifications"), ParamConditions(q)[k])

\* C10: the parametric stage keeps a record iff the record satisfies every
\* parametric condition of the query; the conditions are satisfied one by
\* one, so two conditions of one unit category may be satisfied by two
\* entries of the record.
ParametricStageKeepsAll ==
    stage.param_out.rows =
        SelectSeq(stage.param_in.rows, LAMBDA r : SatisfiesAll(r, query))

\* C10 happens: of two records the stage received, it kept the one that
\* satisfies two resistance conditions by two entries, none of which
\* satisfies both, and dropped the other.
ParametricStageHappens ==
    /\ Len(ParamConditions(query)) = 2
    /\ stage.param_in.rows = <<1, 2>>
    /\ stage.param_out.rows = <<1>>
    /\ \A k \in 1..Len(source[1]["Specifications"]) :
          \E c \in 1..2 :
             ~EvaluateParametricCondition(
                 [v |-> <<source[1]["Specifications"][k]>>], ParamConditions(query)[c])


\* The tokens of the query text of the current call.
QueryTokens == IF "query_text" \in DOMAIN query THEN Split(query.query_text) ELSE <<>>

\* C11: every token of query_text is in exactly one of the two lists: in
\* param_conditions, parsed, when the Unit Parser accepts it, and in
\* text_conditions, as written, when the parser rejects it; no token is
\* dropped, and every row the call keeps holds each rejected token as a
\* literal text token.
TokensClassified ==
    ~IsEmpty(stage.param_in) =>
        /\ Len(stage.param_conditions) + Len(stage.text_conditions) = Len(QueryTokens)
        /\ stage.text_conditions =
               SelectSeq(QueryTokens, LAMBDA t : ParseParametricQuery(t) = None)
        /\ LET good == SelectSeq(QueryTokens, LAMBDA t : ParseParametricQuery(t) # None)
           IN  stage.param_conditions =
                   [i \in 1..Len(good) |-> ParseParametricQuery(good[i])]
        /\ ~stage.raised =>
               \A i \in 1..Len(stage.df.rows) : \A k \in 1..Len(QueryTokens) :
                   ParseParametricQuery(QueryTokens[k]) = None =>
                       ContainsAny(SearchableText(stage.param_out, stage.df.rows[i]),
                                   SplitBar(CleanTextValue(QueryTokens[k])))

\* A call with the tokens "10k" and ">=10k(ohm)" kept a row: the first token
\* is a literal token, the second a parametric condition.
TokensClassifiedHappens ==
    /\ ~stage.raised
    /\ stage.df.rows # <<>>
    /\ stage.text_conditions = <<Txt10k>>
    /\ Len(stage.param_conditions) = 1

\* The rows of a table, as a set.
RowsOf(df) == {df.rows[i] : i \in 1..Len(df.rows)}

\* C12: when min_stock is given, the stock filter keeps a row of the batch
\* exactly when the stock of its record, 0 when the record has none, is at
\* least min_stock; also when no record of the batch has a stock.
StockFilterKeepsInStock ==
    "min_stock" \in DOMAIN query =>
        \A r \in RowsOf(stage.batch) :
            r \in RowsOf(stage.stock_out) <=> StockOf(source[r]) >= query.min_stock

\* C13: when max_preference_level is given, the preference filter keeps a row
\* exactly when the level of its record, 99 when the record has none, is at
\* most max_preference_level; also when no record of the batch has a level.
PreferenceFilterKeepsPreferred ==
    "max_preference_level" \in DOMAIN query =>
        \A r \in RowsOf(stage.stock_out) :
            r \in RowsOf(stage.preference_out)
                <=> LevelOf(source[r]) <= query.max_preference_level

\* The text of a field of a record, the empty text when the record lacks it.
FieldText(rec, col) == IF col \in DOMAIN rec THEN rec[col] ELSE <<>>

\* The alternatives of a filter value, each one normalized.
NormalizedAlternatives(filter_text) ==
    [k \in 1..Len(SplitBar(filter_text)) |-> CleanTextValue(SplitBar(filter_text)[k])]

\* The normalized field contains one of the normalized alternatives.
MatchesNormalized(rec, col, filter_text) ==
    ContainsAny(CleanTextValue(FieldText(rec, col)), NormalizedAlternatives(filter_text))

\* A filter on a text column was given.
Given(param) == param \in DOMAIN query /\ query[param] # <<>>

\* C14: the package filter (and the manufacturer filter) keeps a row exactly
\* when the field of its record, normalized, contains one of the normalized
\* alternatives of the filter value, so that accents and capitals on either
\* side make no difference.
ColumnFilterMatchesNormalized ==
    /\ Given("package") =>
          \A r \in RowsOf(stage.preference_out) :
              r \in RowsOf(stage.package_out)
                  <=> MatchesNormalized(source[r], "Package", query.package)
    /\ Given("manufacturer") =>
          \A r \in RowsOf(stage.package_out) :
              r \in RowsOf(stage.param_in)
                  <=> MatchesNormalized(source[r], "Manufacturer", query.manufacturer)

\* C15: a row whose record has no Package (no Manufacturer) is never kept by
\* the package (manufacturer) filter, whatever the non-empty filter value,
\* one with an empty alternative or one the normalizer empties included.
MissingFieldNeverKept ==
    /\ Given("package") =>
          \A r \in RowsOf(stage.package_out) : "Package" \in DOMAIN source[r]
    /\ Given("manufacturer") =>
          \A r \in RowsOf(stage.param_in) : "Manufacturer" \in DOMAIN source[r]

\* The searchable text of a record as the specification words it: the seven
\* text fields in their order, a missing one empty, joined by a space and
\* normalized.
AllFieldsText(rec) ==
    CleanTextValue(Join([k \in 1..Len(TEXT_FIELDS) |-> FieldText(rec, TEXT_FIELDS[k])],
                        <<" ">>))

\* One of the normalized alternatives of the token is a substring of text.
TokenFound(text, literal_token) ==
    ContainsAny(text, NormalizedAlternatives(literal_token))

\* C16: the literal text stage keeps a row exactly when every literal token
\* has an alternative that, normalized, is a substring of the searchable text
\* of the record: the tokens are ANDed, the alternatives of a token ORed.
TextStageKeepsMatching ==
    (~stage.raised /\ stage.text_conditions # <<>>) =>
        \A r \in RowsOf(stage.param_out) :
            r \in RowsOf(stage.df)
                <=> \A k \in 1..Len(stage.text_conditions) :
                        TokenFound(AllFieldsText(source[r]), stage.text_conditions[k])

\* A call with two literal tokens, one of them with alternatives, kept a row
\* and dropped another.
TextStageHappens ==
    /\ ~stage.raised
    /\ Len(stage.text_conditions) = 2
    /\ Len(SplitBar(stage.text_conditions[1])) = 2
    /\ stage.df.rows # <<>>
    /\ stage.df.rows # stage.param_out.rows

\* The literal tokens of the current call, each one normalized.
NormalizedTokens ==
    [k \in 1..Len(stage.text_conditions) |-> CleanTextValue(stage.text_conditions[k])]

\* Two records have the same text fields up to normalization.
SameNormalizedText(a, b) ==
    \A k \in 1..Len(TEXT_FIELDS) :
        CleanTextValue(FieldText(a, TEXT_FIELDS[k]))
            = CleanTextValue(FieldText(b, TEXT_FIELDS[k]))

\* C17: the literal text stage keeps a row for the tokens as written exactly
\* when it keeps it for the normalized tokens, and it keeps a record exactly
\* when it keeps a record whose text fields are the normalized ones: accents
\* and capitals make no difference on either side.
TextMatchingIsSymmetric ==
    (~stage.raised /\ stage.text_conditions # <<>>) =>
        /\ \A r \in RowsOf(stage.param_out) :
              r \in RowsOf(stage.df)
                  <=> TextMask(SearchableText(stage.param_out, r), NormalizedTokens, 1)
        /\ \A r1, r2 \in RowsOf(stage.param_out) :
              SameNormalizedText(source[r1], source[r2]) =>
                  (r1 \in RowsOf(stage.df) <=> r2 \in RowsOf(stage.df))

\* A token written in capitals kept two records, one with the accented and
\* one with the plain spelling of the same text.
TextMatchingIsSymmetricHappens ==
    /\ ~stage.raised
    /\ stage.text_conditions = <<TxtEbUpper>>
    /\ Len(stage.df.rows) = 2
    /\ source[stage.df.rows[1]] # source[stage.df.rows[2]]
    /\ SameNormalizedText(source[stage.df.rows[1]], source[stage.df.rows[2]])

\* The record at line r passes every stage whose parameter the query q gives.
PassesGiven(r, q) ==
    /\ "min_stock" \in DOMAIN q => StockOf(source[r]) >= q.min_stock
    /\ "max_preference_level" \in DOMAIN q =>
          LevelOf(source[r]) <= q.max_preference_level
    /\ ("package" \in DOMAIN q /\ q.package # <<>>) =>
          MatchesNormalized(source[r], "Package", q.package)
    /\ ("manufacturer" \in DOMAIN q /\ q.manufacturer # <<>>) =>
          MatchesNormalized(source[r], "Manufacturer", q.manufacturer)
    /\ SatisfiesAll(r, q)
    /\ \A k \in 1..Len(TextConditions(q)) :
          TokenFound(AllFieldsText(source[r]), TextConditions(q)[k])

\* C18: a call with no parameter returns every record of the data set once,
\* and a call returns a record exactly when the record passes each stage
\* whose parameter was given.
OmissionIsNoConstraint ==
    pc = "returned" =>
        /\ query = EmptyRecord =>
              /\ Len(returned.df.rows) = Len(source)
              /\ RowsOf(returned.df) = 1..Len(source)
        /\ \A r \in 1..Len(source) :
              r \in RowsOf(returned.df) <=> PassesGiven(r, query)

\* The read of the backing store failed in the streaming call that returned:
\* the file was gone, or the chunk after the lines read holds a line that
\* does not decode.
ReadFailed ==
    \/ ~file_exists
    \/ position < Len(source) /\ DecodeFails(ChunkLines(position))

\* C19: a streaming call whose read of the backing store fails raises to the
\* caller and returns no record.
ReadFailureIsFatal ==
    (StreamingReturned /\ ReadFailed) =>
        /\ returned.raised
        /\ returned.df.rows = <<>>

\* C20: no stage of the filter raises and no call raises to its caller, also
\* when a field the stage reads is absent from every record of the batch.
AbsentFieldNeverRaises == ~stage.raised /\ ~returned.raised

\* An entry that is not a mapping, or a mapping without the name or the
\* value key.
Malformed(entry) ==
    \/ ~IsDict(entry)
    \/ "attribute_name_en" \notin DOMAIN entry
    \/ "attribute_value_name" \notin DOMAIN entry

\* An entry the scan passes over: not a mapping, or without the value key.
Unreadable(entry) ==
    ~IsDict(entry) \/ "attribute_value_name" \notin DOMAIN entry

\* C21 as stated: the verdict on a list is the verdict on its well-formed
\* entries alone; a malformed entry neither satisfies the condition nor
\* stops the scan.
MalformedEntriesSkipped ==
    (pc = "evaluated" /\ IsList(component_specs)) =>
        verdict = EvaluateParametricCondition(
                      [v |-> SelectSeq(component_specs.v, LAMBDA e : ~Malformed(e))],
                      condition)

\* C21 as amended: the verdict on a list is the verdict on its entries that
\* are mappings with a value key; an entry that is not a mapping or has no
\* value neither satisfies the condition nor stops the scan, and an entry
\* without the name key is evaluated on its value.
UnreadableEntriesSkipped ==
    (pc = "evaluated" /\ IsList(component_specs)) =>
        /\ verdict = EvaluateParametricCondition(
                         [v |-> SelectSeq(component_specs.v, LAMBDA e : ~Unreadable(e))],
                         condition)
        /\ (\A k \in 1..Len(component_specs.v) : Unreadable(component_specs.v[k]))
              => ~verdict

\* A list whose first entry is not a mapping and whose second entry is well
\* formed was found to satisfy the condition.
UnreadableEntriesSkippedHappens ==
    /\ pc = "evaluated"
    /\ IsList(component_specs)
    /\ Len(component_specs.v) = 2
    /\ ~IsDict(component_specs.v[1])
    /\ ~Malformed(component_specs.v[2])
    /\ verdict

ModeFixedBySource ==
    pc \in {"iterate", "filter", "rank", "returned"} =>
        (EndsWith(filename, JsonlSuffix) <=> TakesChunkingPath)

\* The rows of a table are in file order.
InFileOrder(rows) == \A i, j \in 1..Len(rows) : i < j => rows[i] < rows[j]

\* One step of a streaming call keeps the order of the batches: a turn of
\* the loop filters the batch right after the lines read and appends its
\* matches, unsorted, after the matches found before; the ranking starts
\* only when every line has been read, on the matches in that order.
StepKeepsBatchOrder ==
    /\ (pc = "iterate" /\ pc' = "iterate") =>
          /\ position' > position
          /\ stage'.batch.rows = Lines(position + 1, position')
          /\ InFileOrder(stage'.df.rows)
          /\ found_chunks' = IF stage'.df.rows = <<>> THEN found_chunks
                             ELSE Append(found_chunks, stage'.df)
    /\ (pc = "iterate" /\ pc' = "rank") =>
          /\ position = Len(source)
          /\ final_df'.rows = ConcatRows(found_chunks)
          /\ InFileOrder(final_df'.rows)
    /\ pc = "rank" => pc' = "returned"

\* C24: in a streaming call the batches are filtered one after another in
\* file order, their matches are accumulated in that order without being
\* sorted, and the ranking runs once, after the last batch: a call returns
\* from the ranking, unless an exception has ended it with an empty table.
BatchesInOrderRankedOnce ==
    [][TakesChunkingPath =>
          /\ StepKeepsBatchOrder
          /\ (pc # "returned" /\ pc' = "returned") =>
                (pc = "rank" \/ returned'.df = EmptyDataFrame)]_vars

\* A streaming call over two batches of one record found a match in each
\* and returned them ranked, in another order than the file's.
BatchesInOrderHappens ==
    /\ pc = "returned"
    /\ TakesChunkingPath
    /\ Len(found_chunks) = 2
    /\ final_df.rows = <<1, 2>>
    /\ returned.df.rows = <<2, 1>>

\* C25: between two calls nothing of a call is left (no line read, no chunk
\* found, no table), so every streaming call reads the file from its first
\* record; and a call with the parameters of an earlier call returns what
\* that call returned, whatever calls ran in between.
QueriesAreIndependent ==
    /\ pc = "idle" =>
          /\ position = 0
          /\ found_chunks = <<>>
          /\ final_df = EmptyDataFrame
    /\ (pc = "returned" /\ earlier # None /\ earlier.query = query) =>
          returned = earlier.returned

\* A streaming call with the parameters of an earlier call has returned the
\* records that call returned, ranked in another order than the file's.
QueriesAreIndependentHappens ==
    /\ pc = "returned"
    /\ TakesChunkingPath
    /\ earlier # None
    /\ earlier.query = query
    /\ returned.df.rows = <<2, 1>>
    /\ earlier.returned.df.rows = <<2, 1>>

\* C26: what one call of the single-batch filter returns is an
\* order-preserving subset of the batch it received: every row returned is a
\* row of the batch, no row is returned twice, and the rows returned stand
\* in the order they have in the batch.
FilterReturnsOrderedSubset ==
    /\ InFileOrder(stage.batch.rows)
    /\ RowsOf(stage.df) \subseteq RowsOf(stage.batch)
    /\ Cardinality(RowsOf(stage.df)) = Len(stage.df.rows)
    /\ InFileOrder(stage.df.rows)

\* A call with a stock filter received a batch of two rows and returned
\* both, the first before the second.
FilterReturnsOrderedSubsetHappens ==
    /\ "min_stock" \in DOMAIN query
    /\ query.min_stock > 0
    /\ stage.batch.rows = <<1, 2>>
    /\ stage.df.rows = <<1, 2>>

\* The parameters of a call other than specifications.
OtherParameters(q) == [k \in DOMAIN q \ {"specifications"} |-> q[k]]

\* C27: the value given for specifications changes nothing: a call returns
\* what an earlier call with the same other parameters returned, whatever
\* value (a dict, another value, none) each of the two had for
\* specifications, and it raises only when that call raised.
SpecificationsChangesNothing ==
    (/\ pc = "returned"
     /\ earlier # None
     /\ OtherParameters(earlier.query) = OtherParameters(query)) =>
        returned = earlier.returned

\* A call with a non-empty dict for specifications, on a table that has the
\* column, has returned rows; the earlier call had the same other parameters
\* and no specifications.
SpecificationsChangesNothingHappens ==
    /\ pc = "returned"
    /\ earlier # None
    /\ "specifications" \in DOMAIN query
    /\ query.specifications.isdict
    /\ Truthy(query.specifications)
    /\ "Specifications" \in stage.batch.cols
    /\ earlier.query = OtherParameters(query)
    /\ "min_stock" \in DOMAIN query
    /\ returned.df.rows # <<>>

\* The parameters a constraint can be added by.
CONSTRAINT_PARAMETERS == {"min_stock", "max_preference_level", "package", "manufacturer"}

\* q2 is q with one more token appended to query_text.
OneMoreToken(q, q2) ==
    /\ "query_text" \in DOMAIN q
    /\ DOMAIN q2 = DOMAIN q
    /\ \A k \in DOMAIN q \ {"query_text"} : q2[k] = q[k]
    /\ Len(q2.query_text) > Len(q.query_text) + 1
    /\ SubSeq(q2.query_text, 1, Len(q.query_text)) = q.query_text
    /\ q2.query_text[Len(q.query_text) + 1] = " "
    /\ \A i \in Len(q.query_text) + 2 .. Len(q2.query_text) : q2.query_text[i] # " "

\* q2 is q with one parameter, omitted in q, now given.
OneMoreParameter(q, q2) ==
    \E p \in CONSTRAINT_PARAMETERS :
        /\ p \notin DOMAIN q
        /\ DOMAIN q2 = DOMAIN q \cup {p}
        /\ \A k \in DOMAIN q : q2[k] = q[k]

\* C28: adding a constraint never enlarges the result: a call whose query
\* is the query of an earlier call with one more token or one more
\* parameter returns no record that the earlier call did not return.
ConstraintNeverEnlarges ==
    (/\ pc = "returned"
     /\ earlier # None
     /\ OneMoreToken(earlier.query, query) \/ OneMoreParameter(earlier.query, query)) =>
        RowsOf(returned.df) \subseteq RowsOf(earlier.returned.df)

(***************************************************************************)
(* The properties of the downloader.                                       *)
(***************************************************************************)
\* C29: each part id is written to the output file at most once, over runs
\* that end by themselves or by an interrupt and are started again: no two
\* lines of the output file carry the same part id, and when a run has
\* ended every part id of the output file is in the processed_ids the next
\* run loads.
PartWrittenOnce ==
    /\ \A j, k \in 1..Len(output_file) :
          j # k => output_file[j]["JLCPCB Part"] # output_file[k]["JLCPCB Part"]
    /\ dl_pc = "stopped" =>
          IdsOf(output_file) \subseteq LoadProgress(progress_file).processed_ids

\* All the new components of the task at hand are lines of the output file.
NewComponentsAppended ==
    \A k \in 1..Len(newly_added_components) :
        \E j \in 1..Len(output_file) : output_file[j] = newly_added_components[k]

\* C30: the order of a checkpoint.  The progress file changes only by being
\* replaced with the complete new content, which records the task at hand,
\* and only after all the new components of that task have been appended
\* to the output file; and a task that was in completed_tasks when the run
\* started is never downloaded in that run.
CheckpointOrdering ==
    [][/\ progress_file' # progress_file =>
            /\ progress_file' = FileContent(progress_data, TRUE)
            /\ progress_file'.completed_tasks[Len(progress_file'.completed_tasks)]
                  = valid_tasks[task_i]
            /\ NewComponentsAppended
       /\ dl_pc' = "download" => valid_tasks'[task_i'] \notin completed_tasks_set'
      ]_vars

=============================================================================
